---------------------------- MODULE Spec2Model ----------------------------
(***************************************************************************)
(* A model of llm_utilities/utilities.py: load_config_from_path (the UUID  *)
(* keyed configuration loader), check_keys_not_missing, load_id_from_env   *)
(* and the two numeric type-sizing helpers.                                *)
(*                                                                         *)
(* Strings are sequences of one-character strings, so that the parsing of  *)
(* a key as a UUID, the formatting of a UUID and the suffix of a path are  *)
(* computed character by character as the library code computes them.      *)
(* A UUID is its 128-bit integer, held as 32 base-16 digits, most          *)
(* significant first (TLC's integers are 32 bits wide).                    *)
(***************************************************************************)
EXTENDS Integers, Sequences, FiniteSets, TLC

VARIABLES
    pc,             \* position of the running call
    callee,         \* the function that was called ("" before a call)
    config_path,    \* load_config_from_path: the path argument
    required_keys,  \* load_config_from_path: the required_keys argument
    config_uuid,    \* load_config_from_path: the config_uuid argument
    configs,        \* the decoded document: a sequence of <<key, value>>
    idx,            \* number of items of configs the for loop has taken
    config,         \* the loop variable config (the value of the item taken)
    outcome,        \* how the call ended: a return value or an exception
    evaluated,      \* history: the checks the call has evaluated, in order
    file_reads,     \* history: number of times the file was opened and read
    file_kind,      \* what the file system holds at config_path
    environ,        \* os.environ
    env_variable_name, \* load_id_from_env: its argument
    number          \* get_optimal_uintype / get_optimal_intype: its argument

vars == <<pc, callee, config_path, required_keys, config_uuid, configs, idx, config,
          outcome, evaluated, file_reads, file_kind, environ, env_variable_name, number>>

-----------------------------------------------------------------------------
(* Bounds of the model *)

\* Largest number of top-level keys of a configuration document.
MaxDocLen == 2

\* The numeric helpers are applied to every integer of -MaxSmall..MaxSmall,
\* besides the integers around the limits of the types.
MaxSmall == 12

-----------------------------------------------------------------------------
(* Strings *)

LowerHex == <<"0","1","2","3","4","5","6","7","8","9","a","b","c","d","e","f">>
UpperHex == <<"0","1","2","3","4","5","6","7","8","9","A","B","C","D","E","F">>

IsHexDigit(c) == \E i \in 1..16 : LowerHex[i] = c \/ UpperHex[i] = c

DigitVal(c) == (CHOOSE i \in 1..16 : LowerHex[i] = c \/ UpperHex[i] = c) - 1

\* str.replace(pat, ''): every non-overlapping occurrence, left to right.
RECURSIVE Remove(_, _)
Remove(s, pat) ==
    IF Len(s) < Len(pat) THEN s
    ELSE IF SubSeq(s, 1, Len(pat)) = pat
         THEN Remove(SubSeq(s, Len(pat) + 1, Len(s)), pat)
         ELSE <<Head(s)>> \o Remove(Tail(s), pat)

RECURSIVE LStrip(_, _)
LStrip(s, chars) ==
    IF s # <<>> /\ Head(s) \in chars THEN LStrip(Tail(s), chars) ELSE s

RECURSIVE RStrip(_, _)
RStrip(s, chars) ==
    IF s # <<>> /\ s[Len(s)] \in chars
    THEN RStrip(SubSeq(s, 1, Len(s) - 1), chars) ELSE s

\* str.strip(chars): characters of the set removed from both ends.
Strip(s, chars) == RStrip(LStrip(s, chars), chars)

\* The characters int() treats as white space, among those of the model.
Whitespace == {" "}

\* The digits of an int() literal after sign and prefix: hexadecimal digits,
\* single underscores only between two digits.  <<>> is not a literal.
RECURSIVE DigitsOk(_)
DigitsOk(s) ==
    /\ s # <<>>
    /\ IsHexDigit(Head(s))
    /\ \/ Len(s) = 1
       \/ /\ s[2] = "_"
          /\ DigitsOk(SubSeq(s, 3, Len(s)))
       \/ /\ s[2] # "_"
          /\ DigitsOk(Tail(s))

RECURSIVE DigitValues(_)
DigitValues(s) ==
    IF s = <<>> THEN <<>>
    ELSE IF Head(s) = "_" THEN DigitValues(Tail(s))
    ELSE <<DigitVal(Head(s))>> \o DigitValues(Tail(s))

RECURSIVE ZeroPad(_, _)
ZeroPad(ds, width) == IF Len(ds) >= width THEN ds ELSE ZeroPad(<<0>> \o ds, width)

\* int(s, 16) for a string without a minus sign: white space stripped, an
\* optional "+", an optional 0x / 0X prefix, which one underscore may follow.
\* ok = FALSE is ValueError; otherwise the value, as 32 base-16 digits.
IntBase16(s) ==
    LET t == Strip(s, Whitespace)
        u == IF t # <<>> /\ Head(t) = "+" THEN Tail(t) ELSE t
        p == Len(u) >= 2 /\ u[1] = "0" /\ u[2] \in {"x", "X"}
        v == IF p THEN SubSeq(u, 3, Len(u)) ELSE u
        w == IF p /\ v # <<>> /\ Head(v) = "_" THEN Tail(v) ELSE v
    IN  IF DigitsOk(w)
        THEN [ok |-> TRUE, int |-> ZeroPad(DigitValues(w), 32)]
        ELSE [ok |-> FALSE]

\* uuid.UUID(hex): ok = FALSE is ValueError.
ParseUUID(hex) ==
    LET h1 == Remove(Remove(hex, <<"u","r","n",":">>), <<"u","u","i","d",":">>)
        h2 == Remove(Strip(h1, {"{", "}"}), <<"-">>)
    IN  IF Len(h2) # 32 THEN [ok |-> FALSE] ELSE IntBase16(h2)

\* str(uuid): '%032x' of the integer, grouped 8-4-4-4-12.
UuidStr(u) ==
    LET hex == [i \in 1..32 |-> LowerHex[u[i] + 1]]
    IN  SubSeq(hex, 1, 8) \o <<"-">> \o SubSeq(hex, 9, 12) \o <<"-">>
        \o SubSeq(hex, 13, 16) \o <<"-">> \o SubSeq(hex, 17, 20) \o <<"-">>
        \o SubSeq(hex, 21, 32)

\* The largest i with s[i] = c, 0 when there is none: str.rfind, 1-based.
RFind(s, c) ==
    IF \E i \in 1..Len(s) : s[i] = c
    THEN CHOOSE i \in 1..Len(s) : s[i] = c /\ \A j \in (i+1)..Len(s) : s[j] # c
    ELSE 0

\* Path.name: the final component.
PathName(path) == SubSeq(path, RFind(path, "/") + 1, Len(path))

\* A suffix test by str.endswith: the last five characters of the path.
Suffix_EndsWith(path) ==
    IF Len(path) >= 5 THEN SubSeq(path, Len(path) - 4, Len(path)) ELSE <<>>

\* Path.suffix: from the last dot of the name, unless the dot is its first
\* or its last character.
Suffix(path) ==
    LET name == PathName(path)
        i == RFind(name, ".")
    IN  IF 1 < i /\ i < Len(name) THEN SubSeq(name, i, Len(name)) ELSE <<>>


\* The characters of a string, as one TLA+ string (for messages).
RECURSIVE Flat(_)
Flat(s) == IF s = <<>> THEN "" ELSE Head(s) \o Flat(Tail(s))

\* ", ".join(names)
RECURSIVE JoinComma(_)
JoinComma(names) ==
    IF names = <<>> THEN ""
    ELSE IF Len(names) = 1 THEN Head(names)
    ELSE Head(names) \o ", " \o JoinComma(Tail(names))

Range(f) == {f[i] : i \in DOMAIN f}

\* The orders in which a set can be iterated.
Orders(S) == {p \in [1..Cardinality(S) -> S] : Range(p) = S}

-----------------------------------------------------------------------------
(* The inputs of the model *)

\* Two UUIDs: the one of the specification's file-format example and the one
\* of its scenarios.
U1 == <<1,2,3,14,4,5,6,7,14,8,9,11,1,2,13,3,10,4,5,6,4,2,6,6,1,4,1,7,4,0,0,0>>
U2 == <<1,1,1,1,1,1,1,1,1,1,1,1,1,1,1,1,1,1,1,1,1,1,1,1,1,1,1,1,1,1,1,1>>

Uuids == {U1, U2}

\* Key strings: the canonical forms of U1 and U2, other spellings of U1,
\* strings of the wrong length, and strings int() accepts or rejects.
KeyU1 == <<"1","2","3","e","4","5","6","7","-","e","8","9","b","-","1","2","d","3","-","a","4","5","6","-","4","2","6","6","1","4","1","7","4","0","0","0">>
KeyU1Upper == <<"{","1","2","3","E","4","5","6","7","-","E","8","9","B","-","1","2","D","3","-","A","4","5","6","-","4","2","6","6","1","4","1","7","4","0","0","0","}">>
KeyU1Urn == <<"u","r","n",":","u","u","i","d",":","1","2","3","e","4","5","6","7","-","e","8","9","b","-","1","2","d","3","-","a","4","5","6","-","4","2","6","6","1","4","1","7","4","0","0","0">>
KeyU1Bare == <<"1","2","3","e","4","5","6","7","e","8","9","b","1","2","d","3","a","4","5","6","4","2","6","6","1","4","1","7","4","0","0","0">>
KeyU2 == <<"1","1","1","1","1","1","1","1","-","1","1","1","1","-","1","1","1","1","-","1","1","1","1","-","1","1","1","1","1","1","1","1","1","1","1","1">>
KeyNotes == <<"n","o","t","e","s">>
KeyBadHex == <<"g","2","3","e","4","5","6","7","-","e","8","9","b","-","1","2","d","3","-","a","4","5","6","-","4","2","6","6","1","4","1","7","4","0","0","0">>
KeyPlus == <<"+","2","3","e","4","5","6","7","-","e","8","9","b","-","1","2","d","3","-","a","4","5","6","-","4","2","6","6","1","4","1","7","4","0","0","0">>
KeyPrefix == <<"0","x","3","e","4","5","6","7","-","e","8","9","b","-","1","2","d","3","-","a","4","5","6","-","4","2","6","6","1","4","1","7","4","0","0","0">>
KeyUnder == <<"1","_","3","e","4","5","6","7","-","e","8","9","b","-","1","2","d","3","-","a","4","5","6","-","4","2","6","6","1","4","1","7","4","0","0","0">>
KeyDblUnder == <<"1","_","_","e","4","5","6","7","-","e","8","9","b","-","1","2","d","3","-","a","4","5","6","-","4","2","6","6","1","4","1","7","4","0","0","0">>
KeyEmpty == <<>>

\* The top-level keys a document may hold.
DocKeys == {KeyU1, KeyU1Upper, KeyU2, KeyNotes, KeyBadHex}

\* JSON values as msgspec decodes them: an object is a dict, the rest is not.
ObjAB == [type |-> "object", members |-> [a |-> 1, b |-> 2]]
ObjA  == [type |-> "object", members |-> [a |-> 3]]
Arr   == [type |-> "array", items |-> <<"a", "b">>]
Null  == [type |-> "null"]

DocValues == {ObjAB, ObjA, Arr}

Unbound == [type |-> "unbound"]

\* The documents: a JSON object decodes to a dict, whose keys are distinct
\* and keep the order of the file.
Docs ==
    {d \in UNION {[1..n -> DocKeys \X DocValues] : n \in 0..MaxDocLen} :
        \A i, j \in DOMAIN d : i # j => d[i][1] # d[j][1]}

\* The required_keys arguments: iterables of field names, one with a repeat.
RequiredArgs == {<<>>, <<"a">>, <<"a", "b">>, <<"a", "c">>, <<"c", "b", "c">>}

PathJson == <<"c",".","j","s","o","n">>
PathUpper == <<"c",".","J","S","O","N">>
PathTxt == <<"c",".","t","x","t">>
PathHidden == <<".","j","s","o","n">>
PathBak == <<"c",".","j","s","o","n",".","b","a","k">>
PathDir == <<"v","1",".","j","s","o","n","/","c">>
PathTar == <<"d","/","c",".","t","a","r",".","j","s","o","n">>

Paths == {PathJson, PathUpper, PathTxt, PathHidden, PathBak, PathDir, PathTar}

\* What the file system holds at a path.
FileKinds == {"missing", "directory", "file"}

DotJson == <<".","j","s","o","n">>

-----------------------------------------------------------------------------
(* Outcomes *)

NoOutcome == [kind |-> "none"]
Return(v) == [kind |-> "return", value |-> v]
Raise(e, m) == [kind |-> "raise", exc |-> e, msg |-> m]

Raised(e) == outcome.kind = "raise" /\ outcome.exc = e

-----------------------------------------------------------------------------
(* check_keys_not_missing *)

\* The name Python gives the type of a decoded JSON value.
PyTypeName(v) ==
    CASE v.type = "object" -> "dict"
      [] v.type = "array"  -> "list"
      [] v.type = "string" -> "str"
      [] v.type = "null"   -> "NoneType"

\* The operands of the difference exchanged.
missing_keys_Swapped(required, mapping) ==
    DOMAIN mapping.members \ Range(required)

\* required_keys - mapping.keys(), required_keys made a set first.
missing_keys(required, mapping) == Range(required) \ DOMAIN mapping.members

\* The results check_keys_not_missing can have: None (as Return(Null)) or an
\* exception.  mapping.keys() exists only on a dict; the order of the names
\* in the message is the iteration order of a set, which is not fixed.
check_keys_not_missing(required, mapping, mapping_name) ==
    IF mapping.type # "object"
    THEN {Raise("AttributeError",
                "'" \o PyTypeName(mapping) \o "' object has no attribute 'keys'")}
    ELSE IF missing_keys(required, mapping) = {}
    THEN {Return(Null)}
    ELSE LET error_suffix ==
                 IF mapping_name # "" THEN " in " \o mapping_name \o "." ELSE "."
         IN  {Raise("KeyError", "missing keys " \o JoinComma(order) \o error_suffix) :
                 order \in Orders(missing_keys(required, mapping))}

-----------------------------------------------------------------------------
(* load_config_from_path *)

ResolveUnchanged == UNCHANGED <<environ, env_variable_name, number>>

\* The call: the arguments, and what the file system holds at the path.
LoadConfigFromPath ==
    /\ pc = "idle"
    /\ \E path \in Paths, required \in RequiredArgs, uuid \in Uuids,
          kind \in FileKinds :
          /\ config_path' = path
          /\ required_keys' = required
          /\ config_uuid' = uuid
          /\ file_kind' = kind
    /\ pc' = "is_file"
    /\ callee' = "load_config_from_path"
    /\ UNCHANGED <<configs, idx, config, outcome, evaluated, file_reads>>
    /\ ResolveUnchanged

\* The two checks of the path in the other order: the suffix first.
IsFileCheck_SuffixFirst ==
    /\ pc = "is_file"
    /\ evaluated' = Append(evaluated, "is_file")
    /\ IF Suffix(config_path) # DotJson
       THEN /\ outcome' = Raise("TypeError",
                                Flat(config_path) \o " must be a .json file.")
            /\ pc' = "done"
       ELSE IF file_kind # "file"
       THEN /\ outcome' = Raise("FileNotFoundError",
                                Flat(config_path) \o " not found.")
            /\ pc' = "done"
       ELSE /\ outcome' = outcome
            /\ pc' = "suffix"
    /\ UNCHANGED <<callee, config_path, required_keys, config_uuid, configs, idx,
                   config, file_reads, file_kind>>
    /\ ResolveUnchanged

\* if not config_path.is_file(): raise FileNotFoundError
IsFileCheck ==
    /\ pc = "is_file"
    /\ evaluated' = Append(evaluated, "is_file")
    /\ IF file_kind # "file"
       THEN /\ outcome' = Raise("FileNotFoundError",
                                Flat(config_path) \o " not found.")
            /\ pc' = "done"
       ELSE /\ outcome' = outcome
            /\ pc' = "suffix"
    /\ UNCHANGED <<callee, config_path, required_keys, config_uuid, configs, idx,
                   config, file_reads, file_kind>>
    /\ ResolveUnchanged

\* elif config_path.suffix != '.json': raise TypeError
SuffixCheck ==
    /\ pc = "suffix"
    /\ evaluated' = Append(evaluated, "suffix")
    /\ IF Suffix(config_path) # DotJson
       THEN /\ outcome' = Raise("TypeError",
                                Flat(config_path) \o " must be a .json file.")
            /\ pc' = "done"
       ELSE /\ outcome' = outcome
            /\ pc' = "read"
    /\ UNCHANGED <<callee, config_path, required_keys, config_uuid, configs, idx,
                   config, file_reads, file_kind>>
    /\ ResolveUnchanged

\* with open(...): configs = json.decode(read()), the file holding a JSON object.
ReadFile ==
    /\ pc = "read"
    /\ \E doc \in Docs : configs' = doc
    /\ file_reads' = file_reads + 1
    /\ idx' = 0
    /\ pc' = "scan"
    /\ UNCHANGED <<callee, config_path, required_keys, config_uuid, config, outcome,
                   evaluated, file_kind>>
    /\ ResolveUnchanged

\* The key compared with config_uuid as a string, not parsed: a str never
\* equals a UUID.
ForNext_NoParse ==
    /\ pc = "scan"
    /\ idx < Len(configs)
    /\ idx' = idx + 1
    /\ config' = configs[idx + 1][2]
    /\ pc' = "scan"
    /\ evaluated' = IF idx = 0 THEN Append(evaluated, "scan") ELSE evaluated
    /\ UNCHANGED <<callee, config_path, required_keys, config_uuid, configs, outcome,
                   file_reads, file_kind>>
    /\ ResolveUnchanged

\* The last matching key wins (as a dict built from the parsed keys would
\* have it): a match breaks the loop only when no later key matches.
ForNext_LastMatch ==
    /\ pc = "scan"
    /\ idx < Len(configs)
    /\ idx' = idx + 1
    /\ config' = configs[idx + 1][2]
    /\ LET config_uuid_ == ParseUUID(configs[idx + 1][1])
           later == \E j \in (idx + 2)..Len(configs) :
                       /\ ParseUUID(configs[j][1]).ok
                       /\ ParseUUID(configs[j][1]).int = config_uuid
       IN  IF config_uuid_.ok /\ config_uuid = config_uuid_.int /\ ~later
           THEN pc' = "validate"
           ELSE pc' = "scan"
    /\ evaluated' = IF idx = 0 THEN Append(evaluated, "scan") ELSE evaluated
    /\ UNCHANGED <<callee, config_path, required_keys, config_uuid, configs, outcome,
                   file_reads, file_kind>>
    /\ ResolveUnchanged

\* No try / except around uuid.UUID: a key that does not parse raises.
ForNext_RaisesOnBadKey ==
    /\ pc = "scan"
    /\ idx < Len(configs)
    /\ idx' = idx + 1
    /\ config' = configs[idx + 1][2]
    /\ LET config_uuid_ == ParseUUID(configs[idx + 1][1])
       IN  IF ~config_uuid_.ok
           THEN /\ outcome' = Raise("ValueError",
                                    "badly formed hexadecimal UUID string")
                /\ pc' = "done"
           ELSE /\ outcome' = outcome
                /\ pc' = IF config_uuid = config_uuid_.int
                         THEN "validate" ELSE "scan"
    /\ evaluated' = IF idx = 0 THEN Append(evaluated, "scan") ELSE evaluated
    /\ UNCHANGED <<callee, config_path, required_keys, config_uuid, configs,
                   file_reads, file_kind>>
    /\ ResolveUnchanged

\* One iteration of the for loop: the next item is taken, its key parsed; a
\* key that does not parse continues the loop, an equal UUID breaks it.
ForNext ==
    /\ pc = "scan"
    /\ idx < Len(configs)
    /\ idx' = idx + 1
    /\ config' = configs[idx + 1][2]
    /\ LET config_uuid_ == ParseUUID(configs[idx + 1][1])
       IN  IF config_uuid_.ok /\ config_uuid = config_uuid_.int
           THEN pc' = "validate"
           ELSE pc' = "scan"
    /\ evaluated' = IF idx = 0 THEN Append(evaluated, "scan") ELSE evaluated
    /\ UNCHANGED <<callee, config_path, required_keys, config_uuid, configs, outcome,
                   file_reads, file_kind>>
    /\ ResolveUnchanged

\* The loop without its else clause: the last item taken is returned.
ForElse_ReturnsLast ==
    /\ pc = "scan"
    /\ idx = Len(configs)
    /\ outcome' = IF idx = 0
                  THEN Raise("UnboundLocalError", "config")
                  ELSE Return(config)
    /\ pc' = "done"
    /\ evaluated' = IF idx = 0 THEN Append(evaluated, "scan") ELSE evaluated
    /\ UNCHANGED <<callee, config_path, required_keys, config_uuid, configs, idx,
                   config, file_reads, file_kind>>
    /\ ResolveUnchanged

\* The else clause of the for loop: it ended without a break.
ForElse ==
    /\ pc = "scan"
    /\ idx = Len(configs)
    /\ outcome' = Raise("KeyError",
                        "config_uuid " \o Flat(UuidStr(config_uuid))
                            \o " not found as key in app_config.")
    /\ pc' = "done"
    /\ evaluated' = IF idx = 0 THEN Append(evaluated, "scan") ELSE evaluated
    /\ UNCHANGED <<callee, config_path, required_keys, config_uuid, configs, idx,
                   config, file_reads, file_kind>>
    /\ ResolveUnchanged

\* check_keys_not_missing(required_keys, config, 'config'); return config
ValidateAndReturn ==
    /\ pc = "validate"
    /\ evaluated' = Append(evaluated, "required")
    /\ \E r \in check_keys_not_missing(required_keys, config, "config") :
          outcome' = IF r.kind = "raise" THEN r ELSE Return(config)
    /\ pc' = "done"
    /\ UNCHANGED <<callee, config_path, required_keys, config_uuid, configs, idx,
                   config, file_reads, file_kind>>
    /\ ResolveUnchanged

-----------------------------------------------------------------------------
(* The specification of load_config_from_path *)

InitCommon ==
    /\ pc = "idle"
    /\ callee = ""
    /\ config_path = <<>>
    /\ required_keys = <<>>
    /\ config_uuid = <<>>
    /\ configs = <<>>
    /\ idx = 0
    /\ config = Unbound
    /\ outcome = NoOutcome
    /\ evaluated = <<>>
    /\ file_reads = 0
    /\ file_kind = "missing"
    /\ env_variable_name = ""
    /\ number = 0

Init == InitCommon /\ environ = <<>>

Next ==
    \/ LoadConfigFromPath
    \/ IsFileCheck
    \/ SuffixCheck
    \/ ReadFile
    \/ ForNext
    \/ ForElse
    \/ ValidateAndReturn

Spec == Init /\ [][Next]_vars

-----------------------------------------------------------------------------
(* load_id_from_env *)

EnvNames == {"CONFIG_ID", "MISSING_VAR"}

\* The values a variable of the environment may have.
EnvValues == {KeyU1, KeyU1Upper, KeyU1Urn, KeyU1Bare, KeyU2, KeyNotes,
              KeyBadHex, KeyPlus, KeyPrefix, KeyUnder, KeyDblUnder, KeyEmpty}

\* The environments: some of the names set, each to a value.
Environs == UNION {[S -> EnvValues] : S \in SUBSET EnvNames}

\* No test that the variable is set: getenv gives None, which uuid.UUID
\* rejects with TypeError, reported as ValueError.
load_id_from_env_NoPresenceCheck(name) ==
    IF name \notin DOMAIN environ
    THEN Raise("ValueError", "The value of " \o name \o " not a valid UUID.")
    ELSE LET u == ParseUUID(environ[name])
         IN  IF u.ok THEN Return(u.int)
             ELSE Raise("ValueError", "The value of " \o name \o " not a valid UUID.")

load_id_from_env(name) ==
    IF name \notin DOMAIN environ
    THEN Raise("KeyError", name \o " not found in environment variables.")
    ELSE LET u == ParseUUID(environ[name])
         IN  IF u.ok THEN Return(u.int)
             ELSE Raise("ValueError", "The value of " \o name \o " not a valid UUID.")

LoadIdFromEnv ==
    /\ pc = "idle"
    /\ \E name \in EnvNames :
          /\ env_variable_name' = name
          /\ outcome' = load_id_from_env(name)
    /\ callee' = "load_id_from_env"
    /\ pc' = "done"
    /\ UNCHANGED <<config_path, required_keys, config_uuid, configs, idx,
                   config, evaluated, file_reads, file_kind, environ, number>>

InitEnv == InitCommon /\ environ \in Environs

NextEnv == LoadIdFromEnv

SpecEnv == InitEnv /\ [][NextEnv]_vars

-----------------------------------------------------------------------------
(* get_optimal_uintype, get_optimal_intype *)

\* n < top * 65536^k, for an integer n: the limits of the wider types do not
\* fit TLC's integers, and floor(n / 65536) < m  iff  n < m * 65536.
RECURSIVE LessScaled(_, _, _)
LessScaled(n, top, k) ==
    IF k = 0 THEN n < top ELSE LessScaled(n \div 65536, top, k - 1)

\* n >= -(top * 65536^k), for an integer n.
RECURSIVE GeqNegScaled(_, _, _)
GeqNegScaled(n, top, k) ==
    IF k = 0 THEN n >= -top ELSE GeqNegScaled(n \div 65536, top, k - 1)

\* number <= 3.4028235e+38 and number >= -3.4028235e+38 (2^128 - 2^104),
\* exact for every integer of magnitude below 65535 * 2^112.
WithinFloat32(n) == LessScaled(n, 65535, 7) /\ GeqNegScaled(n, 65535, 7)

get_optimal_uintype(n) ==
    IF n < 0 THEN Raise("ValueError", "Input number must be non-negative.")
    ELSE IF n <= 255 THEN Return("uint8")
    ELSE IF n <= 65535 THEN Return("uint16")
    ELSE IF LessScaled(n, 1, 2) THEN Return("uint32")
    ELSE IF LessScaled(n, 1, 4) THEN Return("uint64")
    ELSE IF WithinFloat32(n) THEN Return("float32")
    ELSE Return("float64")

get_optimal_intype(n) ==
    IF n <= 127 /\ n >= -128 THEN Return("int8")
    ELSE IF n <= 32767 /\ n >= -32768 THEN Return("int16")
    ELSE IF n <= 2147483647 /\ GeqNegScaled(n, 32768, 1) THEN Return("int32")
    ELSE IF LessScaled(n, 32768, 3) /\ GeqNegScaled(n, 32768, 3) THEN Return("int64")
    ELSE IF WithinFloat32(n) THEN Return("float32")
    ELSE Return("float64")

\* The integer arguments: a range around zero, the limits of the types and
\* their neighbours, and the arguments of the docstring examples.
Numbers ==
    (-MaxSmall..MaxSmall)
    \cup {42, -100, 40000, 100000}
    \cup {126, 127, 128, -127, -128, -129}
    \cup {254, 255, 256}
    \cup {32766, 32767, 32768, -32767, -32768, -32769}
    \cup {65534, 65535, 65536}
    \cup {2147483646, 2147483647, -2147483647, -2147483647 - 1}

GetOptimalUintype ==
    /\ pc = "idle"
    /\ \E n \in Numbers :
          /\ number' = n
          /\ outcome' = get_optimal_uintype(n)
    /\ callee' = "get_optimal_uintype"
    /\ pc' = "done"
    /\ UNCHANGED <<config_path, required_keys, config_uuid, configs, idx,
                   config, evaluated, file_reads, file_kind, environ,
                   env_variable_name>>

GetOptimalIntype ==
    /\ pc = "idle"
    /\ \E n \in Numbers :
          /\ number' = n
          /\ outcome' = get_optimal_intype(n)
    /\ callee' = "get_optimal_intype"
    /\ pc' = "done"
    /\ UNCHANGED <<config_path, required_keys, config_uuid, configs, idx,
                   config, evaluated, file_reads, file_kind, environ,
                   env_variable_name>>

InitNum == InitCommon /\ environ = <<>>

NextNum == GetOptimalUintype \/ GetOptimalIntype

SpecNum == InitNum /\ [][NextNum]_vars

-----------------------------------------------------------------------------
(* Properties of load_config_from_path *)

\* A call of load_config_from_path has ended.
Done == pc = "done" /\ callee = "load_config_from_path"

\* The call read the file: configs is the document.
WasRead == file_reads = 1

\* What each key a document may hold parses to.
Parsed == [key \in DocKeys |-> ParseUUID(key)]

\* The key parses as a UUID, and as this one.
Parses(key, uuid) == Parsed[key].ok /\ Parsed[key].int = uuid

NoMatch == \A i \in DOMAIN configs : ~Parses(configs[i][1], config_uuid)

\* The first key of the document that parses to config_uuid.
FirstMatch ==
    CHOOSE i \in DOMAIN configs :
        /\ Parses(configs[i][1], config_uuid)
        /\ \A j \in 1..(i - 1) : ~Parses(configs[j][1], config_uuid)

IsRecord(v) == v.type = "object"

RequiredSet == {required_keys[i] : i \in DOMAIN required_keys}

HasRequired(v) == IsRecord(v) /\ RequiredSet \subseteq DOMAIN v.members

\* The paths of the model whose final component has the extension .json.
JsonPaths == {PathJson, PathTar}

\* The message of the KeyError for a UUID no key parses to.
NotFoundMsg(uuid) ==
    IF uuid = U1
    THEN "config_uuid 123e4567-e89b-12d3-a456-426614174000 not found as key in app_config."
    ELSE "config_uuid 11111111-1111-1111-1111-111111111111 not found as key in app_config."

\* The messages of the KeyError for a set of missing keys of 'config'.
MissingMsgs(missing) ==
    {"missing keys " \o JoinComma(order) \o " in config." : order \in Orders(missing)}

\* C1, as stated: when the document has a key equal to str(config_uuid)
\* whose value is a record with every required key, that value is returned,
\* whatever the other keys and their order.
C1_CanonicalKeyReturned ==
    (Done /\ WasRead) =>
        \A i \in DOMAIN configs :
            (configs[i][1] = UuidStr(config_uuid) /\ HasRequired(configs[i][2]))
                => outcome = Return(configs[i][2])

\* C1, amended: when the document has a key equal to str(config_uuid) whose
\* value is a record with every required key, and no key stored before it
\* parses to the same UUID, that value is returned unchanged.
C1_CanonicalKeyReturnedIfFirst ==
    (Done /\ WasRead) =>
        \A i \in DOMAIN configs :
            ( /\ configs[i][1] = UuidStr(config_uuid)
              /\ HasRequired(configs[i][2])
              /\ \A j \in 1..(i - 1) : ~Parses(configs[j][1], config_uuid) )
                => outcome = Return(configs[i][2])

\* C1's case: the canonical key, stored after another key, is returned.
C1_Witness ==
    /\ Done
    /\ Len(configs) = 2
    /\ configs[2][1] = UuidStr(config_uuid)
    /\ required_keys = <<"a", "b">>
    /\ outcome = Return(ObjAB)

\* C2: when no key of the document parses to config_uuid (the empty
\* document and documents of unparseable keys included) the call raises the
\* KeyError "config_uuid ... not found", whatever required_keys is.
C2_NoMatchIsNotFound ==
    (Done /\ WasRead /\ NoMatch) =>
        outcome = Raise("KeyError", NotFoundMsg(config_uuid))

\* C2's case: two keys, one unparseable and one of another UUID.
C2_Witness ==
    /\ Done
    /\ Len(configs) = 2
    /\ NoMatch
    /\ \E i \in DOMAIN configs : ~Parsed[configs[i][1]].ok
    /\ \E i \in DOMAIN configs : Parsed[configs[i][1]].ok
    /\ required_keys # <<>>
    /\ Raised("KeyError")

\* C3: once a record (a JSON object) is selected, the call returns it if and
\* only if every required key is among its keys; otherwise it raises the
\* KeyError whose message names the required keys the record lacks, each
\* once, comma-joined, and the mapping 'config'.
C3_RequiredKeys ==
    (Done /\ WasRead /\ ~NoMatch /\ IsRecord(config)) =>
        /\ (RequiredSet \subseteq DOMAIN config.members) <=> (outcome.kind = "return")
        /\ outcome.kind = "return" => outcome = Return(config)
        /\ outcome.kind = "raise" =>
              /\ outcome.exc = "KeyError"
              /\ outcome.msg \in MissingMsgs(RequiredSet \ DOMAIN config.members)
        /\ (required_keys = <<"a", "c">> /\ config = ObjAB) =>
              outcome = Raise("KeyError", "missing keys c in config.")
        /\ (required_keys = <<"c", "b", "c">> /\ config = ObjA) =>
              /\ outcome.kind = "raise"
              /\ outcome.msg \in {"missing keys b, c in config.",
                                  "missing keys c, b in config."}

\* C3's case: two required keys are missing, one of them given twice.
C3_Witness ==
    /\ Done
    /\ required_keys = <<"c", "b", "c">>
    /\ config = ObjA
    /\ outcome = Raise("KeyError", "missing keys c, b in config.")

\* C4: a path that is not an existing file raises FileNotFoundError; an
\* existing file whose extension is not .json raises TypeError; in both
\* cases the file is not read and nothing is returned.
C4_PathChecks ==
    Done =>
        /\ file_kind # "file" =>
              /\ outcome = Raise("FileNotFoundError",
                                 Flat(config_path) \o " not found.")
              /\ file_reads = 0 /\ configs = <<>>
        /\ (file_kind = "file" /\ config_path \notin JsonPaths) =>
              /\ outcome = Raise("TypeError",
                                 Flat(config_path) \o " must be a .json file.")
              /\ file_reads = 0 /\ configs = <<>>

\* C4's case: an existing file named .json, which has no extension.
C4_Witness ==
    /\ Done
    /\ file_kind = "file"
    /\ config_path = PathHidden
    /\ outcome = Raise("TypeError", ".json must be a .json file.")

\* The items of the document whose key parses as a UUID.
RECURSIVE Parseable(_)
Parseable(doc) ==
    IF doc = <<>> THEN <<>>
    ELSE IF Parsed[Head(doc)[1]].ok
    THEN <<Head(doc)>> \o Parseable(Tail(doc))
    ELSE Parseable(Tail(doc))

\* The outcomes of the scan and the validation on a document all of whose
\* keys parse: the value of the first key equal to config_uuid is validated.
OutcomesOnParseable(doc) ==
    LET m == {i \in DOMAIN doc : Parsed[doc[i][1]].int = config_uuid}
    IN  IF m = {}
        THEN {Raise("KeyError", NotFoundMsg(config_uuid))}
        ELSE LET v == doc[CHOOSE i \in m : \A j \in m : i <= j][2]
             IN  {IF r.kind = "raise" THEN r ELSE Return(v) :
                     r \in check_keys_not_missing(required_keys, v, "config")}

\* C5: a key that does not parse as a UUID never matches and never raises:
\* the loop goes on, a matching key stored after it is found, and the call
\* ends as it does on the document without its unparseable keys.
C5_UnparseableKeysSkipped ==
    /\ (callee = "load_config_from_path" /\ pc = "validate") =>
          Parsed[configs[idx][1]].ok
    /\ (Done /\ WasRead) => outcome \in OutcomesOnParseable(Parseable(configs))

\* C5's case: the matching key is found after an unparseable one.
C5_Witness ==
    /\ Done
    /\ Len(configs) = 2
    /\ ~Parsed[configs[1][1]].ok
    /\ Parses(configs[2][1], config_uuid)
    /\ outcome = Return(configs[2][2])

\* C6: the keys are visited in stored order and the loop stops at the first
\* key that parses to config_uuid: its value is the selected record, the one
\* validated and returned; later matching keys are not visited.
C6_FirstMatchSelected ==
    (callee = "load_config_from_path" /\ pc \in {"validate", "done"}
        /\ WasRead /\ ~NoMatch) =>
        /\ idx = FirstMatch
        /\ config = configs[FirstMatch][2]
        /\ (pc = "done" /\ outcome.kind = "return") => outcome.value = config
        /\ (pc = "done" /\ IsRecord(config)) =>
              (outcome.kind = "return" <=> HasRequired(config))

\* C6's case: two spellings of config_uuid; the first lacks a required key
\* the second has, and the call fails.
C6_Witness ==
    /\ Done
    /\ Len(configs) = 2
    /\ Parses(configs[1][1], config_uuid)
    /\ Parses(configs[2][1], config_uuid)
    /\ ~HasRequired(configs[1][2])
    /\ HasRequired(configs[2][2])
    /\ Raised("KeyError")

\* C9, as stated: every failing call on a file that holds a JSON object
\* fails with FileNotFoundError, TypeError or KeyError, whatever JSON values
\* the top-level keys have.
C9_TypedFailuresOnly ==
    (Done /\ outcome.kind = "raise") =>
        outcome.exc \in {"FileNotFoundError", "TypeError", "KeyError"}

IsPrefix(s, t) == Len(s) <= Len(t) /\ s = SubSeq(t, 1, Len(s))

\* C10: the checks are evaluated in the order is_file, suffix, scan,
\* required keys; the first that fails ends the call and decides the
\* exception, and no later check is evaluated (for a selected value that is
\* a record).
C10_CheckOrder ==
    /\ IsPrefix(evaluated, <<"is_file", "suffix", "scan", "required">>)
    /\ Done =>
          IF file_kind # "file"
          THEN Raised("FileNotFoundError") /\ evaluated = <<"is_file">>
          ELSE IF config_path \notin JsonPaths
          THEN Raised("TypeError") /\ evaluated = <<"is_file", "suffix">>
          ELSE IF NoMatch
          THEN /\ outcome = Raise("KeyError", NotFoundMsg(config_uuid))
               /\ evaluated = <<"is_file", "suffix", "scan">>
          ELSE /\ evaluated = <<"is_file", "suffix", "scan", "required">>
               /\ IsRecord(config) =>
                     IF RequiredSet \subseteq DOMAIN config.members
                     THEN outcome.kind = "return"
                     ELSE /\ Raised("KeyError")
                          /\ outcome.msg \in
                                MissingMsgs(RequiredSet \ DOMAIN config.members)

\* C10's case: a missing path without the .json extension.
C10_Witness ==
    /\ Done
    /\ file_kind = "missing"
    /\ config_path = PathTxt
    /\ Raised("FileNotFoundError")

-----------------------------------------------------------------------------
(* Properties of load_id_from_env *)

\* The outcome of load_id_from_env, by the environment.
EnvOutcomeOk ==
    (pc = "done" /\ callee = "load_id_from_env") =>
        /\ env_variable_name \notin DOMAIN environ =>
              outcome = Raise("KeyError",
                              env_variable_name \o " not found in environment variables.")
        /\ env_variable_name \in DOMAIN environ =>
              LET value == environ[env_variable_name]
              IN  /\ ~ParseUUID(value).ok =>
                        outcome = Raise("ValueError",
                                        "The value of " \o env_variable_name
                                            \o " not a valid UUID.")
                  /\ ParseUUID(value).ok => outcome = Return(ParseUUID(value).int)
                  /\ value \in {KeyEmpty, KeyNotes, KeyBadHex, KeyDblUnder} =>
                        Raised("ValueError")
                  /\ value \in {KeyU1, KeyU1Upper, KeyU1Urn, KeyU1Bare} =>
                        outcome = Return(U1)
                  /\ value = KeyU2 => outcome = Return(U2)

\* C7: load_id_from_env raises KeyError when the variable is unset, raises
\* ValueError when its value does not parse as a UUID (the empty string
\* included), returns the parsed UUID otherwise, and leaves the environment
\* as it was.
C7_EnvOutcomes == []EnvOutcomeOk /\ [][environ' = environ]_vars

\* C7's case: a value in another spelling is parsed to the UUID.
C7_Witness ==
    /\ pc = "done"
    /\ callee = "load_id_from_env"
    /\ env_variable_name \in DOMAIN environ
    /\ environ[env_variable_name] = KeyU1Upper
    /\ outcome = Return(U1)

-----------------------------------------------------------------------------
(* Properties of the numeric helpers *)

\* C8, as stated: the functions return what their docstring examples show.
C8_DocstringExamples ==
    /\ (pc = "done" /\ callee = "get_optimal_uintype") =>
          /\ number = 42 => outcome = Return("uint8")
          /\ number = 100000 => outcome = Return("uint16")
    /\ (pc = "done" /\ callee = "get_optimal_intype") =>
          /\ number = 42 => outcome = Return("int8")
          /\ number = -100 => outcome = Return("int8")
          /\ number = 40000 => outcome = Return("int16")

=============================================================================
